---- MODULE Spec2Model ----
(***************************************************************************)
(* Model of scripts/python/fetch-metadata.py: the resolution and           *)
(* extraction pipeline (scrape_google_play) and the per-row orchestration  *)
(* (load_and_process_excel).                                               *)
(*                                                                         *)
(* Representation.                                                         *)
(*  - A Python str is a sequence of one-character strings, so that         *)
(*    startswith, "in", split and f-string concatenation are computed.     *)
(*  - A Python value held in a record field or a JSON document is tagged:  *)
(*    Str(s) for a str, Num(lit) for the float nearest to the literal lit, *)
(*    PyInt(lit) for an int, PyBool(b) for a bool, Dict(m) for a dict,     *)
(*    List(s) for a list, None for None. Two literals with the same        *)
(*    nearest double name the same float.                                  *)
(*  - A character outside printable ASCII is written "U+XXXX", its code    *)
(*    point in four or five hexadecimal digits.                            *)
(*  - The m of Dict(m) is a function from keys to values, the s of List(s) *)
(*    a sequence of values.                                                *)
(*  - An HTTP exchange is an input of the environment, drawn when the      *)
(*    request is issued: either a transport error or a status and a page.  *)
(*  - The outcome of a block of code is [k, val, app_name, exc]:           *)
(*    k = "return" (the function returns val), "fall" (control falls out   *)
(*    of the block with app_name) or "raise" (exception exc propagates).   *)
(***************************************************************************)
EXTENDS Integers, Sequences, FiniteSets, TLC

\* ------------------------------------------------------------------ bounds
\* Longest input column read from the spreadsheet.
MaxRows == 3

\* ------------------------------------------------------- program constants
HTTP_OK == 200

RESERVED_PREFIX == <<"c","o","m",".","a","n","d","r","o","i","d">>
ALLOWED_ID == <<"c","o","m",".","a","n","d","r","o","i","d",".","c","h","r","o","m","e">>
DETAILS_MARKER == <<"/","s","t","o","r","e","/","a","p","p","s","/","d","e","t","a","i","l","s","?","i","d","=">>
SEARCH_URL_HEAD == <<"h","t","t","p","s",":","/","/","p","l","a","y",".","g","o","o","g","l","e",".","c","o","m","/","s","t","o","r","e","/","s","e","a","r","c","h","?","q","=">>
SEARCH_URL_TAIL == <<"&","c","=","a","p","p","s">>
DETAIL_URL_HEAD == <<"h","t","t","p","s",":","/","/","p","l","a","y",".","g","o","o","g","l","e",".","c","o","m","/","s","t","o","r","e","/","a","p","p","s","/","d","e","t","a","i","l","s","?","i","d","=">>
DETAIL_URL_TAIL == <<"&","h","l","=","e","n">>
NOT_APPLICABLE == <<"N","o","t"," ","a","p","p","l","i","c","a","b","l","e">>
NOT_FOUND_ALL == <<"N","o","t"," ","f","o","u","n","d">>
NOT_FOUND_FIELD == <<"N","o","t"," ","F","o","u","n","d">>
LD_JSON == "application/ld+json"

\* ---------------------------------------------------------- Python values
Str(s) == [t |-> "str", v |-> s]
Num(n) == [t |-> "float", v |-> n]
PyInt(lit) == [t |-> "int", v |-> lit]
PyBool(b) == [t |-> "bool", v |-> b]
Dict(m) == [t |-> "dict", v |-> m]
List(s) == [t |-> "list", v |-> s]
None == [t |-> "None", v |-> 0]

\* str.startswith(p)
StartsWith(s, p) == Len(p) <= Len(s) /\ SubSeq(s, 1, Len(p)) = p

\* sub in s
Contains(s, sub) ==
    \E i \in 0..(Len(s) - Len(sub)) : SubSeq(s, i + 1, i + Len(sub)) = sub

\* s.split(c) for a one-character separator c
RECURSIVE Split(_, _)
Split(s, c) ==
    IF \A i \in 1..Len(s) : s[i] # c
    THEN <<s>>
    ELSE LET i == CHOOSE k \in 1..Len(s) :
                      s[k] = c /\ \A j \in 1..(k - 1) : s[j] # c
         IN  <<SubSeq(s, 1, i - 1)>> \o Split(SubSeq(s, i + 1, Len(s)), c)

\* dict.get(key, default)
Get(d, key, default) == IF key \in DOMAIN d THEN d[key] ELSE default

\* outcomes of an expression: its value, or the exception it raises
Ok(v) == [ok |-> TRUE, v |-> v, exc |-> ""]
Err(exc) == [ok |-> FALSE, v |-> <<>>, exc |-> exc]

\* outcomes of a block
Return(val) == [k |-> "return", val |-> val, app_name |-> <<>>, exc |-> ""]
Fall(name) == [k |-> "fall", val |-> <<>>, app_name |-> name, exc |-> ""]
Raise(exc) == [k |-> "raise", val |-> <<>>, app_name |-> <<>>, exc |-> exc]

\* (x,) * 7
Times7(x) == [i \in 1..7 |-> Str(x)]

\* ------------------------------------------------------------------- float
\* A character is a one-character string when it is printable ASCII and the
\* string "U+XXXX" of its code point otherwise. A float is Num(lit): the
\* double nearest to the decimal literal lit ("inf", "-inf", "nan" included).
AsciiDigits == <<"0","1","2","3","4","5","6","7","8","9">>
AsciiDigitSet == {"0","1","2","3","4","5","6","7","8","9"}

\* The non-ASCII characters with a decimal digit value, in runs of ten from
\* the digit zero of each script.
UnicodeDigits == <<
    "U+0660", "U+0661", "U+0662", "U+0663", "U+0664", "U+0665", "U+0666", "U+0667", "U+0668", "U+0669",
    "U+06F0", "U+06F1", "U+06F2", "U+06F3", "U+06F4", "U+06F5", "U+06F6", "U+06F7", "U+06F8", "U+06F9",
    "U+07C0", "U+07C1", "U+07C2", "U+07C3", "U+07C4", "U+07C5", "U+07C6", "U+07C7", "U+07C8", "U+07C9",
    "U+0966", "U+0967", "U+0968", "U+0969", "U+096A", "U+096B", "U+096C", "U+096D", "U+096E", "U+096F",
    "U+09E6", "U+09E7", "U+09E8", "U+09E9", "U+09EA", "U+09EB", "U+09EC", "U+09ED", "U+09EE", "U+09EF",
    "U+0A66", "U+0A67", "U+0A68", "U+0A69", "U+0A6A", "U+0A6B", "U+0A6C", "U+0A6D", "U+0A6E", "U+0A6F",
    "U+0AE6", "U+0AE7", "U+0AE8", "U+0AE9", "U+0AEA", "U+0AEB", "U+0AEC", "U+0AED", "U+0AEE", "U+0AEF",
    "U+0B66", "U+0B67", "U+0B68", "U+0B69", "U+0B6A", "U+0B6B", "U+0B6C", "U+0B6D", "U+0B6E", "U+0B6F",
    "U+0BE6", "U+0BE7", "U+0BE8", "U+0BE9", "U+0BEA", "U+0BEB", "U+0BEC", "U+0BED", "U+0BEE", "U+0BEF",
    "U+0C66", "U+0C67", "U+0C68", "U+0C69", "U+0C6A", "U+0C6B", "U+0C6C", "U+0C6D", "U+0C6E", "U+0C6F",
    "U+0CE6", "U+0CE7", "U+0CE8", "U+0CE9", "U+0CEA", "U+0CEB", "U+0CEC", "U+0CED", "U+0CEE", "U+0CEF",
    "U+0D66", "U+0D67", "U+0D68", "U+0D69", "U+0D6A", "U+0D6B", "U+0D6C", "U+0D6D", "U+0D6E", "U+0D6F",
    "U+0DE6", "U+0DE7", "U+0DE8", "U+0DE9", "U+0DEA", "U+0DEB", "U+0DEC", "U+0DED", "U+0DEE", "U+0DEF",
    "U+0E50", "U+0E51", "U+0E52", "U+0E53", "U+0E54", "U+0E55", "U+0E56", "U+0E57", "U+0E58", "U+0E59",
    "U+0ED0", "U+0ED1", "U+0ED2", "U+0ED3", "U+0ED4", "U+0ED5", "U+0ED6", "U+0ED7", "U+0ED8", "U+0ED9",
    "U+0F20", "U+0F21", "U+0F22", "U+0F23", "U+0F24", "U+0F25", "U+0F26", "U+0F27", "U+0F28", "U+0F29",
    "U+1040", "U+1041", "U+1042", "U+1043", "U+1044", "U+1045", "U+1046", "U+1047", "U+1048", "U+1049",
    "U+1090", "U+1091", "U+1092", "U+1093", "U+1094", "U+1095", "U+1096", "U+1097", "U+1098", "U+1099",
    "U+17E0", "U+17E1", "U+17E2", "U+17E3", "U+17E4", "U+17E5", "U+17E6", "U+17E7", "U+17E8", "U+17E9",
    "U+1810", "U+1811", "U+1812", "U+1813", "U+1814", "U+1815", "U+1816", "U+1817", "U+1818", "U+1819",
    "U+1946", "U+1947", "U+1948", "U+1949", "U+194A", "U+194B", "U+194C", "U+194D", "U+194E", "U+194F",
    "U+19D0", "U+19D1", "U+19D2", "U+19D3", "U+19D4", "U+19D5", "U+19D6", "U+19D7", "U+19D8", "U+19D9",
    "U+1A80", "U+1A81", "U+1A82", "U+1A83", "U+1A84", "U+1A85", "U+1A86", "U+1A87", "U+1A88", "U+1A89",
    "U+1A90", "U+1A91", "U+1A92", "U+1A93", "U+1A94", "U+1A95", "U+1A96", "U+1A97", "U+1A98", "U+1A99",
    "U+1B50", "U+1B51", "U+1B52", "U+1B53", "U+1B54", "U+1B55", "U+1B56", "U+1B57", "U+1B58", "U+1B59",
    "U+1BB0", "U+1BB1", "U+1BB2", "U+1BB3", "U+1BB4", "U+1BB5", "U+1BB6", "U+1BB7", "U+1BB8", "U+1BB9",
    "U+1C40", "U+1C41", "U+1C42", "U+1C43", "U+1C44", "U+1C45", "U+1C46", "U+1C47", "U+1C48", "U+1C49",
    "U+1C50", "U+1C51", "U+1C52", "U+1C53", "U+1C54", "U+1C55", "U+1C56", "U+1C57", "U+1C58", "U+1C59",
    "U+A620", "U+A621", "U+A622", "U+A623", "U+A624", "U+A625", "U+A626", "U+A627", "U+A628", "U+A629",
    "U+A8D0", "U+A8D1", "U+A8D2", "U+A8D3", "U+A8D4", "U+A8D5", "U+A8D6", "U+A8D7", "U+A8D8", "U+A8D9",
    "U+A900", "U+A901", "U+A902", "U+A903", "U+A904", "U+A905", "U+A906", "U+A907", "U+A908", "U+A909",
    "U+A9D0", "U+A9D1", "U+A9D2", "U+A9D3", "U+A9D4", "U+A9D5", "U+A9D6", "U+A9D7", "U+A9D8", "U+A9D9",
    "U+A9F0", "U+A9F1", "U+A9F2", "U+A9F3", "U+A9F4", "U+A9F5", "U+A9F6", "U+A9F7", "U+A9F8", "U+A9F9",
    "U+AA50", "U+AA51", "U+AA52", "U+AA53", "U+AA54", "U+AA55", "U+AA56", "U+AA57", "U+AA58", "U+AA59",
    "U+ABF0", "U+ABF1", "U+ABF2", "U+ABF3", "U+ABF4", "U+ABF5", "U+ABF6", "U+ABF7", "U+ABF8", "U+ABF9",
    "U+FF10", "U+FF11", "U+FF12", "U+FF13", "U+FF14", "U+FF15", "U+FF16", "U+FF17", "U+FF18", "U+FF19",
    "U+104A0", "U+104A1", "U+104A2", "U+104A3", "U+104A4", "U+104A5", "U+104A6", "U+104A7", "U+104A8", "U+104A9",
    "U+10D30", "U+10D31", "U+10D32", "U+10D33", "U+10D34", "U+10D35", "U+10D36", "U+10D37", "U+10D38", "U+10D39",
    "U+11066", "U+11067", "U+11068", "U+11069", "U+1106A", "U+1106B", "U+1106C", "U+1106D", "U+1106E", "U+1106F",
    "U+110F0", "U+110F1", "U+110F2", "U+110F3", "U+110F4", "U+110F5", "U+110F6", "U+110F7", "U+110F8", "U+110F9",
    "U+11136", "U+11137", "U+11138", "U+11139", "U+1113A", "U+1113B", "U+1113C", "U+1113D", "U+1113E", "U+1113F",
    "U+111D0", "U+111D1", "U+111D2", "U+111D3", "U+111D4", "U+111D5", "U+111D6", "U+111D7", "U+111D8", "U+111D9",
    "U+112F0", "U+112F1", "U+112F2", "U+112F3", "U+112F4", "U+112F5", "U+112F6", "U+112F7", "U+112F8", "U+112F9",
    "U+11450", "U+11451", "U+11452", "U+11453", "U+11454", "U+11455", "U+11456", "U+11457", "U+11458", "U+11459",
    "U+114D0", "U+114D1", "U+114D2", "U+114D3", "U+114D4", "U+114D5", "U+114D6", "U+114D7", "U+114D8", "U+114D9",
    "U+11650", "U+11651", "U+11652", "U+11653", "U+11654", "U+11655", "U+11656", "U+11657", "U+11658", "U+11659",
    "U+116C0", "U+116C1", "U+116C2", "U+116C3", "U+116C4", "U+116C5", "U+116C6", "U+116C7", "U+116C8", "U+116C9",
    "U+11730", "U+11731", "U+11732", "U+11733", "U+11734", "U+11735", "U+11736", "U+11737", "U+11738", "U+11739",
    "U+118E0", "U+118E1", "U+118E2", "U+118E3", "U+118E4", "U+118E5", "U+118E6", "U+118E7", "U+118E8", "U+118E9",
    "U+11950", "U+11951", "U+11952", "U+11953", "U+11954", "U+11955", "U+11956", "U+11957", "U+11958", "U+11959",
    "U+11C50", "U+11C51", "U+11C52", "U+11C53", "U+11C54", "U+11C55", "U+11C56", "U+11C57", "U+11C58", "U+11C59",
    "U+11D50", "U+11D51", "U+11D52", "U+11D53", "U+11D54", "U+11D55", "U+11D56", "U+11D57", "U+11D58", "U+11D59",
    "U+11DA0", "U+11DA1", "U+11DA2", "U+11DA3", "U+11DA4", "U+11DA5", "U+11DA6", "U+11DA7", "U+11DA8", "U+11DA9",
    "U+16A60", "U+16A61", "U+16A62", "U+16A63", "U+16A64", "U+16A65", "U+16A66", "U+16A67", "U+16A68", "U+16A69",
    "U+16AC0", "U+16AC1", "U+16AC2", "U+16AC3", "U+16AC4", "U+16AC5", "U+16AC6", "U+16AC7", "U+16AC8", "U+16AC9",
    "U+16B50", "U+16B51", "U+16B52", "U+16B53", "U+16B54", "U+16B55", "U+16B56", "U+16B57", "U+16B58", "U+16B59",
    "U+1D7CE", "U+1D7CF", "U+1D7D0", "U+1D7D1", "U+1D7D2", "U+1D7D3", "U+1D7D4", "U+1D7D5", "U+1D7D6", "U+1D7D7",
    "U+1D7D8", "U+1D7D9", "U+1D7DA", "U+1D7DB", "U+1D7DC", "U+1D7DD", "U+1D7DE", "U+1D7DF", "U+1D7E0", "U+1D7E1",
    "U+1D7E2", "U+1D7E3", "U+1D7E4", "U+1D7E5", "U+1D7E6", "U+1D7E7", "U+1D7E8", "U+1D7E9", "U+1D7EA", "U+1D7EB",
    "U+1D7EC", "U+1D7ED", "U+1D7EE", "U+1D7EF", "U+1D7F0", "U+1D7F1", "U+1D7F2", "U+1D7F3", "U+1D7F4", "U+1D7F5",
    "U+1D7F6", "U+1D7F7", "U+1D7F8", "U+1D7F9", "U+1D7FA", "U+1D7FB", "U+1D7FC", "U+1D7FD", "U+1D7FE", "U+1D7FF",
    "U+1E140", "U+1E141", "U+1E142", "U+1E143", "U+1E144", "U+1E145", "U+1E146", "U+1E147", "U+1E148", "U+1E149",
    "U+1E2F0", "U+1E2F1", "U+1E2F2", "U+1E2F3", "U+1E2F4", "U+1E2F5", "U+1E2F6", "U+1E2F7", "U+1E2F8", "U+1E2F9",
    "U+1E950", "U+1E951", "U+1E952", "U+1E953", "U+1E954", "U+1E955", "U+1E956", "U+1E957", "U+1E958", "U+1E959",
    "U+1FBF0", "U+1FBF1", "U+1FBF2", "U+1FBF3", "U+1FBF4", "U+1FBF5", "U+1FBF6", "U+1FBF7", "U+1FBF8", "U+1FBF9"
>>
UnicodeDigitSet == {UnicodeDigits[i] : i \in 1..Len(UnicodeDigits)}

\* The ASCII characters Py_ISSPACE accepts and the non-ASCII whitespace.
AsciiSpaces == {" ", "U+0009", "U+000A", "U+000B", "U+000C", "U+000D"}
UnicodeSpaces == {"U+0085", "U+00A0", "U+1680", "U+2000", "U+2001", "U+2002", "U+2003",
    "U+2004", "U+2005", "U+2006", "U+2007", "U+2008", "U+2009", "U+200A",
    "U+2028", "U+2029", "U+202F", "U+205F", "U+3000"}

\* The characters float() reads as a decimal digit.
IsDigit(c) == c \in AsciiDigitSet \/ c \in UnicodeDigitSet

DigitVal(c) ==
    IF c \in AsciiDigitSet
    THEN (CHOOSE d \in 1..10 : AsciiDigits[d] = c) - 1
    ELSE ((CHOOSE i \in 1..Len(UnicodeDigits) : UnicodeDigits[i] = c) - 1) % 10

\* float() first turns decimal digits into ASCII digits and whitespace into
\* spaces.
ToAscii(c) ==
    IF c \in UnicodeDigitSet THEN AsciiDigits[DigitVal(c) + 1]
    ELSE IF c \in UnicodeSpaces THEN " " ELSE c

\* Leading and trailing whitespace is dropped.
Strip(s) ==
    LET keep == {i \in 1..Len(s) : s[i] \notin AsciiSpaces}
    IN  IF keep = {} THEN <<>>
        ELSE SubSeq(s, CHOOSE i \in keep : \A j \in keep : i <= j,
                       CHOOSE i \in keep : \A j \in keep : i >= j)

\* An underscore may stand only between two digits.
BadUnderscore(s) ==
    \E i \in 1..Len(s) :
        /\ s[i] = "_"
        /\ \/ i = 1 \/ i = Len(s)
           \/ s[i - 1] \notin AsciiDigitSet
           \/ s[i + 1] \notin AsciiDigitSet

NotUnderscore(c) == c # "_"

\* The text float() parses: ASCII, stripped, underscores removed.
Clean(s) == SelectSeq(Strip([i \in 1..Len(s) |-> ToAscii(s[i])]), NotUnderscore)

Lower(c) ==
    CASE c = "I" -> "i" [] c = "N" -> "n" [] c = "F" -> "f" [] c = "T" -> "t"
      [] c = "Y" -> "y" [] c = "A" -> "a" [] c = "E" -> "e" [] OTHER -> c

\* The index after the run of digits that starts at index i.
DigitsEnd(s, i) ==
    CHOOSE j \in i..(Len(s) + 1) :
        /\ j = Len(s) + 1 \/ s[j] \notin AsciiDigitSet
        /\ \A k \in i..(j - 1) : s[k] \in AsciiDigitSet

DigitVals(s) == [i \in 1..Len(s) |-> DigitVal(s[i])]

\* The value of an exponent's digits. With more than nine significant
\* digits it is 1100000000, the largest exponent the parser keeps; a text
\* the model can hold reads as zero or as infinity from there on.
RECURSIVE NatOf(_)
NatOf(ds) ==
    IF ds = <<>> THEN 0 ELSE 10 * NatOf(SubSeq(ds, 1, Len(ds) - 1)) + ds[Len(ds)]
ExpValOf(sig) == IF Len(sig) > 9 THEN 1100000000 ELSE NatOf(sig)
ExpVal(ds) ==
    LET nz == {i \in 1..Len(ds) : ds[i] # 0}
    IN  IF nz = {} THEN 0
        ELSE ExpValOf(SubSeq(ds, CHOOSE i \in nz : \A j \in nz : i <= j, Len(ds)))

NoParse == [ok |-> FALSE, kind |-> "", neg |-> FALSE, int |-> <<>>, frac |-> <<>>, exp |-> 0]
Special(kind, neg) == [NoParse EXCEPT !.ok = TRUE, !.kind = kind, !.neg = neg]

\* The grammar of a float literal, on cleaned text: [sign] (inf | infinity |
\* nan | digits [. digits] [e [sign] digits]) with a digit before or after
\* the point.
ParseFloat(t) ==
    LET signed == Len(t) > 0 /\ t[1] \in {"+", "-"}
        neg == signed /\ t[1] = "-"
        b == IF signed THEN Tail(t) ELSE t
        low == [i \in 1..Len(b) |-> Lower(b[i])]
        i1 == DigitsEnd(b, 1)
        point == i1 <= Len(b) /\ b[i1] = "."
        f0 == IF point THEN i1 + 1 ELSE i1
        f1 == IF point THEN DigitsEnd(b, f0) ELSE i1
        hasE == f1 <= Len(b) /\ b[f1] \in {"e", "E"}
        esigned == hasE /\ f1 + 1 <= Len(b) /\ b[f1 + 1] \in {"+", "-"}
        e0 == IF esigned THEN f1 + 2 ELSE f1 + 1
        e1 == IF hasE THEN DigitsEnd(b, e0) ELSE f1
        mag == IF hasE THEN ExpVal(DigitVals(SubSeq(b, e0, e1 - 1))) ELSE 0
    IN  IF low = <<"n","a","n">> THEN Special("nan", neg)
        ELSE IF low = <<"i","n","f">> \/ low = <<"i","n","f","i","n","i","t","y">>
        THEN Special("inf", neg)
        ELSE IF /\ (i1 - 1) + (f1 - f0) >= 1
                /\ hasE => e1 > e0
                /\ e1 = Len(b) + 1
        THEN [ok |-> TRUE, kind |-> "num", neg |-> neg,
              int |-> DigitVals(SubSeq(b, 1, i1 - 1)),
              frac |-> DigitVals(SubSeq(b, f0, f1 - 1)),
              exp |-> IF esigned /\ b[f1 + 1] = "-" THEN -mag ELSE mag]
        ELSE NoParse

\* -------------------------------------------------- decimal digit strings
\* A natural number is the sequence of its decimal digits, most significant
\* first; leading zeros are allowed.
Zeros(n) == IF n <= 0 THEN <<>> ELSE [i \in 1..n |-> 0]
Nines(n) == IF n <= 0 THEN <<>> ELSE [i \in 1..n |-> 9]

StripLead(ds) ==
    LET nz == {i \in 1..Len(ds) : ds[i] # 0}
    IN  IF nz = {} THEN <<>>
        ELSE SubSeq(ds, CHOOSE i \in nz : \A j \in nz : i <= j, Len(ds))

StripTrail(ds) ==
    LET nz == {i \in 1..Len(ds) : ds[i] # 0}
    IN  IF nz = {} THEN <<>>
        ELSE SubSeq(ds, 1, CHOOSE i \in nz : \A j \in nz : i >= j)

DigitAt(ds, i) == IF i <= Len(ds) THEN ds[i] ELSE 0

\* -1, 0, 1: a against b as fractions 0.a and 0.b (zero padded on the right)
CmpFrac(a, b) ==
    LET n == IF Len(a) > Len(b) THEN Len(a) ELSE Len(b)
        diff == {i \in 1..n : DigitAt(a, i) # DigitAt(b, i)}
    IN  IF diff = {} THEN 0
        ELSE LET i == CHOOSE k \in diff : \A j \in diff : k <= j
             IN  IF DigitAt(a, i) < DigitAt(b, i) THEN -1 ELSE 1

\* -1, 0, 1: a against b as naturals
CmpNat(a, b) ==
    LET x == StripLead(a)
        y == StripLead(b)
    IN  IF Len(x) < Len(y) THEN -1 ELSE IF Len(x) > Len(y) THEN 1 ELSE CmpFrac(x, y)

\* 2 * ds: a digit takes a carry when the digit after it is 5 or more
Twice(ds) ==
    LET n == Len(ds)
        body == [i \in 1..n |->
                    (2 * ds[i] + (IF i < n /\ ds[i + 1] >= 5 THEN 1 ELSE 0)) % 10]
    IN  IF n = 0 THEN <<>> ELSE IF ds[1] >= 5 THEN <<1>> \o body ELSE body

\* ds \div 2: a digit takes ten when the digit before it is odd
Half(ds) ==
    IF ds = <<>> THEN <<>>
    ELSE [i \in 1..Len(ds) |->
             (ds[i] + (IF i > 1 /\ ds[i - 1] % 2 = 1 THEN 10 ELSE 0)) \div 2]

Odd(ds) == ds # <<>> /\ ds[Len(ds)] % 2 = 1

\* ds + 1: a digit is bumped when every digit after it is 9
Inc(ds) ==
    LET n == Len(ds)
        body == [i \in 1..n |->
                    IF \A j \in (i + 1)..n : ds[j] = 9 THEN (ds[i] + 1) % 10 ELSE ds[i]]
    IN  IF \A j \in 1..n : ds[j] = 9 THEN <<1>> \o Zeros(n) ELSE body

\* ------------------------------------------------------------ float, round
\* 2^52: from here on every double is an integer.
P52 == <<4,5,0,3,5,9,9,6,2,7,3,7,0,4,9,6>>
\* 2^46
P46 == <<7,0,3,6,8,7,4,4,1,7,7,6,6,4>>
\* 2^1024 - 2^970: a literal at or above it rounds to infinity.
HUGE == <<
    1,7,9,7,6,9,3,1,3,4,8,6,2,3,1,5,8,0,7,9,3,7,2,8,9,7,1,4,0,5,3,0,3,4,1,5,0,7,9,9,
    3,4,1,3,2,7,1,0,0,3,7,8,2,6,9,3,6,1,7,3,7,7,8,9,8,0,4,4,4,9,6,8,2,9,2,7,6,4,7,5,
    0,9,4,6,6,4,9,0,1,7,9,7,7,5,8,7,2,0,7,0,9,6,3,3,0,2,8,6,4,1,6,6,9,2,8,8,7,9,1,0,
    9,4,6,5,5,5,5,4,7,8,5,1,9,4,0,4,0,2,6,3,0,6,5,7,4,8,8,6,7,1,5,0,5,8,2,0,6,8,1,9,
    0,8,9,0,2,0,0,0,7,0,8,3,8,3,6,7,6,2,7,3,8,5,4,8,4,5,8,1,7,7,1,1,5,3,1,7,6,4,4,7,
    5,7,3,0,2,7,0,0,6,9,8,5,5,5,7,1,3,6,6,9,5,9,6,2,2,8,4,2,9,1,4,8,1,9,8,6,0,8,3,4,
    9,3,6,4,7,5,2,9,2,7,1,9,0,7,4,1,6,8,4,4,4,3,6,5,5,1,0,7,0,4,3,4,2,7,1,1,5,5,9,6,
    9,9,5,0,8,0,9,3,0,4,2,8,8,0,1,7,7,9,0,4,1,7,4,4,9,7,7,9,2
>>

\* 2^-1075 = 0.TINY * 10^-323, half the least positive double: a literal at
\* or below it rounds to zero.
TINY == <<
    2,4,7,0,3,2,8,2,2,9,2,0,6,2,3,2,7,2,0,8,8,2,8,4,3,9,6,4,3,4,1,1,0,6,8,6,1,8,2,5,
    2,9,9,0,1,3,0,7,1,6,2,3,8,2,2,1,2,7,9,2,8,4,1,2,5,0,3,3,7,7,5,3,6,3,5,1,0,4,3,7,
    5,9,3,2,6,4,9,9,1,8,1,8,0,8,1,7,9,9,6,1,8,9,8,9,8,2,8,2,3,4,7,7,2,2,8,5,8,8,6,5,
    4,6,3,3,2,8,3,5,5,1,7,7,9,6,9,8,9,8,1,9,9,3,8,7,3,9,8,0,0,5,3,9,0,9,3,9,0,6,3,1,
    5,0,3,5,6,5,9,5,1,5,5,7,0,2,2,6,3,9,2,2,9,0,8,5,8,3,9,2,4,4,9,1,0,5,1,8,4,4,3,5,
    9,3,1,8,0,2,8,4,9,9,3,6,5,3,6,1,5,2,5,0,0,3,1,9,3,7,0,4,5,7,6,7,8,2,4,9,2,1,9,3,
    6,5,6,2,3,6,6,9,8,6,3,6,5,8,4,8,0,7,5,7,0,0,1,5,8,5,7,6,9,2,6,9,9,0,3,7,0,6,3,1,
    1,9,2,8,2,7,9,5,5,8,5,5,1,3,3,2,9,2,7,8,3,4,3,3,8,4,0,9,3,5,1,9,7,8,0,1,5,5,3,1,
    2,4,6,5,9,7,2,6,3,5,7,9,5,7,4,6,2,2,7,6,6,4,6,5,2,7,2,8,2,7,2,2,0,0,5,6,3,7,4,0,
    0,6,4,8,5,4,9,9,9,7,7,0,9,6,5,9,9,4,7,0,4,5,4,0,2,0,8,2,8,1,6,6,2,2,6,2,3,7,8,5,
    7,3,9,3,4,5,0,7,3,6,3,3,9,0,0,7,9,6,7,7,6,1,9,3,0,5,7,7,5,0,6,7,4,0,1,7,6,3,2,4,
    6,7,3,6,0,0,9,6,8,9,5,1,3,4,0,5,3,5,5,3,7,4,5,8,5,1,6,6,6,1,1,3,4,2,2,3,7,6,6,6,
    7,8,6,0,4,1,6,2,1,5,9,6,8,0,4,6,1,9,1,4,4,6,7,2,9,1,8,4,0,3,0,0,5,3,0,0,5,7,5,3,
    0,8,4,9,0,4,8,7,6,5,3,9,1,7,1,1,3,8,6,5,9,1,6,4,6,2,3,9,5,2,4,9,1,2,6,2,3,6,5,3,
    8,8,1,8,7,9,6,3,6,2,3,9,3,7,3,2,8,0,4,2,3,8,9,1,0,1,8,6,7,2,3,4,8,4,9,7,6,6,8,2,
    3,5,0,8,9,8,6,3,3,8,8,5,8,7,9,2,5,6,2,8,3,0,2,7,5,5,9,9,5,6,5,7,5,2,4,4,5,5,5,0,
    7,2,5,5,1,8,9,3,1,3,6,9,0,8,3,6,2,5,4,7,7,9,1,8,6,9,4,8,6,6,7,9,9,4,9,6,8,3,2,4,
    0,4,9,7,0,5,8,2,1,0,2,8,5,1,3,1,8,5,4,5,1,3,9,6,2,1,3,8,3,7,7,2,2,8,2,6,1,4,5,4,
    3,7,6,9,3,4,1,2,5,3,2,0,9,8,5,9,1,3,2,7,6,6,7,2,3,6,3,2,8,1,2,5
>>
TINY_EXP == 0 - 323

\* A parsed number is 0.D * 10^E, D without leading or trailing zeros
\* (D = <<>> for zero).
Mantissa(p) == StripTrail(StripLead(p.int \o p.frac))
Exponent(p) ==
    Len(p.int) - (Len(p.int \o p.frac) - Len(StripLead(p.int \o p.frac))) + p.exp

\* 0.D * 10^E >= C, for a natural C > 0 without leading zeros
AtLeast(D, E, C) == D # <<>> /\ (E > Len(C) \/ (E = Len(C) /\ CmpFrac(D, C) >= 0))

\* 0.D * 10^E <= 2^-1075: the literal reads as zero
Underflows(D, E) ==
    D = <<>> \/ E < TINY_EXP \/ (E = TINY_EXP /\ CmpFrac(D, TINY) <= 0)

FloatOk(lit) == [ok |-> TRUE, v |-> lit, exc |-> ""]
FloatError(exc) == [ok |-> FALSE, v |-> <<>>, exc |-> exc]

\* float(x): [ok, v, exc]. None raises TypeError, a str that is no float
\* literal ValueError, an int beyond the doubles OverflowError.
Float(x) ==
    IF x.t = "float" THEN FloatOk(x.v)
    ELSE IF x.t = "bool" THEN FloatOk(IF x.v THEN <<"1",".","0">> ELSE <<"0",".","0">>)
    ELSE IF x.t = "int"
    THEN LET p == ParseFloat(x.v)
         IN  IF AtLeast(Mantissa(p), Exponent(p), HUGE) THEN FloatError("OverflowError")
             \* an int has one zero
             ELSE IF Mantissa(p) = <<>> THEN FloatOk(<<"0",".","0">>)
             ELSE FloatOk(x.v)
    ELSE IF x.t = "str"
    THEN LET text == Strip([i \in 1..Len(x.v) |-> ToAscii(x.v[i])])
         IN  IF BadUnderscore(text) \/ ~ParseFloat(Clean(x.v)).ok
             THEN FloatError("ValueError") ELSE FloatOk(Clean(x.v))
    ELSE FloatError("TypeError")

\* A * 2^k with k least such that A * 2^k >= T
RECURSIVE Scale(_, _, _)
Scale(A, T, k) ==
    IF CmpNat(A, T) >= 0 THEN [a |-> A, k |-> k]
    ELSE IF CmpNat(Twice(Twice(Twice(Twice(A)))), T) < 0
    THEN Scale(Twice(Twice(Twice(Twice(A)))), T, k + 4)
    ELSE Scale(Twice(A), T, k + 1)

\* N \div 2^k with the last bit shifted out (half) and whether any bit before
\* it was set (sticky)
RECURSIVE Shift(_, _, _, _)
Shift(N, k, half, sticky) ==
    IF k = 0 THEN [q |-> N, half |-> half, sticky |-> sticky]
    ELSE IF N = <<>> THEN [q |-> N, half |-> FALSE, sticky |-> sticky \/ half]
    ELSE Shift(Half(N), k - 1, Odd(N), sticky \/ half)

\* m or m + 1 as the digits cut off (-1 below, 0 at, 1 above one half) say,
\* a tie going to the even one
RoundEven(m, half) == IF half > 0 \/ (half = 0 /\ Odd(m)) THEN Inc(m) ELSE m

\* The integer nearest to a / 10^j
RoundDigits(a, j) ==
    RoundEven(SubSeq(a, 1, Len(a) - j), CmpFrac(SubSeq(a, Len(a) - j + 1, Len(a)), <<5>>))

Mantissa53(s, j) == [m |-> RoundDigits(s.a, j), k |-> s.k]

\* For 0 < 0.D * 10^E < 2^53: the double nearest to it (ties to the even
\* mantissa) is m / 2^k.
Nearest(D, E) ==
    IF E >= Len(D) THEN Mantissa53(Scale(D \o Zeros(E - Len(D)), P52, 0), 0)
    ELSE Mantissa53(Scale(D, P52 \o Zeros(Len(D) - E), 0), Len(D) - E)

RoundShifted(r) == IF r.half /\ (r.sticky \/ Odd(r.q)) THEN Inc(r.q) ELSE r.q
Shifted(d, zeros) == Shift(d.m \o zeros, d.k, FALSE, FALSE)

\* That double times 100, rounded to the nearest integer (ties to even).
ExactHundredths(D, E) == RoundShifted(Shifted(Nearest(D, E), <<0, 0>>))

\* The same value, read off the decimal digits when 100 * 0.D * 10^E is
\* farther from a tie than the error of the conversion to a double
\* (relative error 2^-53, below 10^(L-15) for a product below 10^L).
Hundredths(D, E) ==
    LET P == E + 2
        L == IF P > 1 THEN P ELSE 1
        K == 15 - L
        I == IF P <= 0 THEN <<>> ELSE SubSeq(D \o Zeros(P - Len(D)), 1, P)
        F == IF P <= 0 THEN Zeros(-P) \o D ELSE SubSeq(D, P + 1, Len(D))
        pre == SubSeq(F \o Zeros(K), 1, K)
        low == IF K = 1 THEN <<3>> ELSE <<4>> \o Nines(K - 2) \o <<8>>
        high == IF K = 1 THEN <<6>> ELSE <<5>> \o Zeros(K - 2) \o <<1>>
    IN  IF P < -15 THEN <<>>
        ELSE IF K >= 1 /\ CmpFrac(pre, low) <= 0 THEN I
        ELSE IF K >= 1 /\ CmpFrac(pre, high) >= 0 THEN Inc(I)
        ELSE ExactHundredths(D, E)

\* The literal of c / 10^d, d in 0..2, with at least one decimal and no
\* trailing zero after it.
Decimal2Lit(neg, c, d) ==
    LET cs == StripLead(c) \o Zeros(2 - d)
        ds == Zeros(3 - Len(cs)) \o cs
        n == Len(ds)
        chars == [i \in 1..n |-> AsciiDigits[ds[i] + 1]]
    IN  (IF neg THEN <<"-">> ELSE <<>>)
        \o SubSeq(chars, 1, n - 2) \o <<".">>
        \o (IF ds[n] = 0 THEN <<chars[n - 1]>> ELSE SubSeq(chars, n - 1, n))

\* For 2^46 <= cs / 10^d < 2^53, where a double has at most six binary
\* places: the double nearest to cs / 10^d, times 10^6.
MillionthsOf(cs, d) ==
    StripLead(Shifted(Nearest(StripTrail(cs), Len(cs) - d), Zeros(6)).q)
Millionths(c, d) == MillionthsOf(StripLead(c), d)

\* R / 10^6 to d decimals, the nearest (ties to even), times 10^d
ToPlaces(R, d) == RoundDigits(R, 6 - d)

\* The shortest literal that reads back as the double R / 10^6
Shortest(neg, R) ==
    IF Millionths(ToPlaces(R, 0), 0) = R THEN Decimal2Lit(neg, ToPlaces(R, 0), 0)
    ELSE IF Millionths(ToPlaces(R, 1), 1) = R THEN Decimal2Lit(neg, ToPlaces(R, 1), 1)
    ELSE Decimal2Lit(neg, ToPlaces(R, 2), 2)

\* The literal repr() writes for the double nearest to q / 100 < 2^52: the
\* shortest that reads back as that double. Below 2^46 doubles lie closer
\* than 0.01 and that is q / 100 itself.
Hundredths2Lit(neg, q) ==
    IF CmpNat(q, P46 \o <<0, 0>>) < 0 THEN Decimal2Lit(neg, q, 2)
    ELSE Shortest(neg, Millionths(q, 2))

Round2Of(lit, p, D, E) ==
    IF p.kind = "nan" THEN <<"n","a","n">>
    ELSE IF p.kind = "num" /\ D = <<>> THEN Hundredths2Lit(p.neg, <<>>)
    ELSE IF p.kind = "inf" \/ AtLeast(D, E, HUGE)
    THEN (IF p.neg THEN <<"-">> ELSE <<>>) \o <<"i","n","f">>
    ELSE IF AtLeast(D, E, P52) THEN lit
    ELSE Hundredths2Lit(p.neg, Hundredths(D, E))
Round2Parsed(lit, p) == Round2Of(lit, p, Mantissa(p), Exponent(p))

\* round(x, 2) of the float named by lit: the double is written to two
\* decimals, correctly rounded, and that text is read back.
Round2(lit) == Round2Parsed(lit, ParseFloat(lit))

\* ------------------------------------------------ inputs of the environment
\* Application names that can stand in the spreadsheet column.
NameMms == <<"c","o","m",".","a","n","d","r","o","i","d",".","m","m","s">>
NameOrgApp == <<"o","r","g",".","a","p","p">>
NameMaps == <<"m","a","p","s">>
Names == {ALLOWED_ID, NameMms, NameOrgApp, NameMaps}

\* num_rows: <<>> is None, <<n>> the integer n (negative, zero, cutting).
NumRowsChoices == {<<>>} \cup {<<n>> : n \in {-1, 0, 2}}

HrefDetails == <<"/","s","t","o","r","e","/","a","p","p","s","/","d","e","t","a","i","l","s","?","i","d","=","o","r","g",".","a","p","p">>
HrefNoEquals == <<"/","s","t","o","r","e","/","a","p","p","s">>
HrefOther == <<"/","a","b","o","u","t","?","h","l","=","e","n">>

TransportError == [kind |-> "error", status |-> 0, body |-> <<>>]
Http(status, body) == [kind |-> "http", status |-> status, body |-> body]

\* What the search endpoint can answer. The body of a page is the sequence
\* of its <section> elements in document order, each the sequence of its
\* <a> elements, each the dict of its attributes.
SearchResponses == <<
    TransportError,
    Http(503, <<>>),
    Http(200, <<>>),
    Http(200, << <<>> >>),
    Http(200, << <<[id |-> <<"x">>]>>, <<[href |-> HrefDetails]>> >>),
    Http(200, << <<[href |-> HrefDetails], [href |-> HrefOther]>> >>),
    Http(200, << <<[id |-> <<"x">>], [href |-> HrefNoEquals], [href |-> HrefDetails]>> >>),
    Http(200, << <<[href |-> HrefOther], [href |-> HrefDetails]>> >>)
>>

\* The text of a script element: well-formed JSON with its parsed value, or
\* text json.loads rejects.
Json(value) == Str([wellformed |-> TRUE, value |-> value])
Malformed == Str([wellformed |-> FALSE, value |-> <<>>])
LdScript(text) == [type |-> LD_JSON, string |-> text]
JsScript == [type |-> "text/javascript", string |-> Malformed]

TxtName == Str(<<"M","a","p","s">>)
TxtDescription == Str(<<"G","o">>)
TxtCategory == Str(<<"T","R","A","V","E","L">>)
TxtContentRating == Str(<<"E","v","e","r","y","o","n","e">>)
TxtPrice == Str(<<"0">>)
TxtNotNumeric == Str(<<"n","/","a">>)
TxtRating == Str(<<" ","4",".","3","4","5","6">>)
LitRating == <<"4",".","3","4","5","6">>

\* Structured-data documents.
Base == [name |-> TxtName, description |-> TxtDescription,
         applicationCategory |-> TxtCategory, contentRating |-> TxtContentRating]
WithOffer == [offers |-> List(<<Dict([price |-> TxtPrice])>>)]
WithRating == [aggregateRating |-> Dict([ratingValue |-> Num(LitRating)])]
DocFull == Base @@ WithOffer @@ WithRating
DocStrRating == Base @@ WithOffer @@ [aggregateRating |-> Dict([ratingValue |-> TxtRating])]
DocNoRating == Base @@ WithOffer
DocEmptyRating == Base @@ WithOffer @@ [aggregateRating |-> Dict(<<>>)]
DocNoRatingValue ==
    Base @@ WithOffer @@ [aggregateRating |-> Dict([ratingCount |-> PyInt(<<"1","2">>)])]
DocBadRatingValue == Base @@ WithOffer @@ [aggregateRating |-> Dict([ratingValue |-> TxtNotNumeric])]
WithZeroRating == [aggregateRating |-> Dict([ratingValue |-> PyInt(<<"-","0">>)])]
DocNullRating == Base @@ WithOffer @@ [aggregateRating |-> None]
DocTextRating == Base @@ WithOffer @@ [aggregateRating |-> TxtRating]
DocEmptyOffers == Base @@ [offers |-> List(<<>>)] @@ WithZeroRating
DocNoPrice ==
    Base @@ [offers |-> List(<<Dict([priceCurrency |-> Str(<<"U","S","D">>)])>>)]
         @@ WithZeroRating
\* fields that are not text: JSON-LD allows an array or an object for a value
DocListName == [name |-> List(<<TxtName, TxtDescription>>)] @@ Base @@ WithOffer @@ WithRating
DocDictCategory ==
    [applicationCategory |-> Dict([name |-> TxtCategory])] @@ Base @@ WithOffer @@ WithRating
DocTextOffers == Base @@ [offers |-> List(<<Str(<<"f","r","e","e">>)>>)] @@ WithRating
DocSparse == [name |-> TxtName]

\* What the detail endpoint can answer. The body of a page is the sequence
\* of its <script> elements in document order.
DetailResponses == <<
    TransportError,
    Http(404, <<>>),
    Http(200, <<>>),
    Http(200, <<JsScript>>),
    Http(200, <<LdScript(Malformed)>>),
    Http(200, <<LdScript(None)>>),
    Http(200, <<LdScript(Json(List(<<>>)))>>),
    Http(200, <<JsScript, LdScript(Json(Dict(DocFull)))>>),
    Http(200, <<LdScript(Json(Dict(DocStrRating))), LdScript(Malformed)>>),
    Http(200, <<LdScript(Json(Dict(DocNoRating)))>>),
    Http(200, <<LdScript(Json(Dict(DocEmptyRating)))>>),
    Http(200, <<LdScript(Json(Dict(DocNoRatingValue)))>>),
    Http(200, <<LdScript(Json(Dict(DocBadRatingValue)))>>),
    Http(200, <<LdScript(Json(Dict(DocListName)))>>),
    Http(200, <<LdScript(Json(Dict(DocDictCategory)))>>),
    Http(200, <<LdScript(Json(Dict(DocNullRating)))>>),
    Http(200, <<LdScript(Json(Dict(DocTextRating)))>>),
    Http(200, <<LdScript(Json(Dict(DocTextOffers)))>>),
    Http(200, <<LdScript(Json(Dict(DocEmptyOffers)))>>),
    Http(200, <<LdScript(Json(Dict(DocNoPrice)))>>),
    Http(200, <<LdScript(Json(Dict(DocSparse)))>>)
>>

\* -------------------------------------------------------- scrape_google_play
\* Mutant of Skipped: the allow-listed identifier is not exempted.
SkippedNoAllowList(app_name) == StartsWith(app_name, RESERVED_PREFIX)

\* The policy gate: the name is skipped without any request.
Skipped(app_name) == StartsWith(app_name, RESERVED_PREFIX) /\ app_name # ALLOWED_ID

\* Mutant of NeedsSearch: the test for the dot is inverted.
NeedsSearchInverted(app_name) == Contains(app_name, <<".">>)

\* The search fallback is taken for a name without a dot.
NeedsSearch(app_name) == ~Contains(app_name, <<".">>)

SearchUrl(app_name) == SEARCH_URL_HEAD \o app_name \o SEARCH_URL_TAIL
DetailUrl(app_name) == DETAIL_URL_HEAD \o app_name \o DETAIL_URL_TAIL

\* The filter of section.find("a", href=True, attrs={"href": <lambda>}).
\* BeautifulSoup merges the keyword filters over attrs (attrs.update(kwargs)),
\* so the filter in force for href is True: the attribute is present.
AnchorMatches(a) == "href" \in DOMAIN a

\* section.find("a", ...): the index of the first matching anchor, 0 for None.
FindAnchor(section) ==
    IF \E i \in 1..Len(section) : AnchorMatches(section[i])
    THEN CHOOSE i \in 1..Len(section) :
            AnchorMatches(section[i]) /\ \A j \in 1..(i - 1) : ~AnchorMatches(section[j])
    ELSE 0

\* The body of the try block of the search fallback.
SearchTry(app_name, search_response) ==
    IF search_response.kind = "error" THEN Raise("RequestException")
    ELSE IF search_response.status = HTTP_OK
    THEN LET sections == search_response.body
         IN  IF Len(sections) > 0
             THEN LET section == sections[1]
                      link == FindAnchor(section)
                  IN  IF link # 0
                      THEN LET parts == Split(section[link]["href"], "=")
                           IN  IF Len(parts) >= 2
                               THEN Fall(parts[2])
                               ELSE Raise("IndexError")
                      ELSE Return(Times7(NOT_FOUND_ALL))
             ELSE Fall(app_name)
    ELSE Fall(app_name)

\* except Exception around a block: any exception becomes ("Not found",) * 7.
ExceptNotFound(outcome) ==
    IF outcome.k = "raise" THEN Return(Times7(NOT_FOUND_ALL)) ELSE outcome

\* if "." not in app_name: try ... except ...
SearchFallback(app_name, search_response) ==
    ExceptNotFound(SearchTry(app_name, search_response))

\* Mutant of AfterSearch: a search that did not resolve is tried again.
AfterSearchRetry(outcome) == IF outcome.k = "fall" THEN "detail" ELSE "search"

\* Where scrape_google_play goes after the search fallback.
AfterSearch(outcome) == IF outcome.k = "fall" THEN "detail" ELSE "store"

IsLdJson(script) == script["type"] = LD_JSON

\* soup.find("script", {"type": "application/ld+json"}): the index of the
\* first matching script, 0 for None.
FindScript(scripts) ==
    IF \E i \in 1..Len(scripts) : IsLdJson(scripts[i])
    THEN CHOOSE i \in 1..Len(scripts) :
            IsLdJson(scripts[i]) /\ \A j \in 1..(i - 1) : ~IsLdJson(scripts[j])
    ELSE 0

\* json.loads(script_tag.string)
JsonLoads(text) ==
    IF text.t # "str" THEN [ok |-> FALSE, value |-> <<>>, exc |-> "TypeError"]
    ELSE IF ~text.v.wellformed
         THEN [ok |-> FALSE, value |-> <<>>, exc |-> "JSONDecodeError"]
         ELSE [ok |-> TRUE, value |-> text.v.value, exc |-> ""]

\* bool(x), the test of `if x`
TruthyNumber(p) == p.kind # "num" \/ ~Underflows(Mantissa(p), Exponent(p))
Truthy(x) ==
    IF x.t = "None" THEN FALSE
    ELSE IF x.t = "bool" THEN x.v
    ELSE IF x.t \in {"int", "float"} THEN TruthyNumber(ParseFloat(x.v))
    ELSE IF x.t = "dict" THEN DOMAIN x.v # {}
    ELSE Len(x.v) > 0

\* x.get(key, default)
GetAttr(x, key, default) ==
    IF x.t = "dict" THEN Ok(Get(x.v, key, default)) ELSE Err("AttributeError")

\* x[0]
First(x) ==
    IF x.t = "list" THEN (IF Len(x.v) > 0 THEN Ok(x.v[1]) ELSE Err("IndexError"))
    ELSE IF x.t = "str" THEN (IF Len(x.v) > 0 THEN Ok(Str(<<x.v[1]>>)) ELSE Err("IndexError"))
    ELSE IF x.t = "dict" THEN Err("KeyError")
    ELSE Err("TypeError")

\* round(float(value), 2)
Rounded(f) == IF f.ok THEN Ok(Num(Round2(f.v))) ELSE Err(f.exc)
RatingOf(value) == IF value.ok THEN Rounded(Float(value.v)) ELSE value

\* round(float(aggregate_rating.get("ratingValue")), 2) if aggregate_rating
\* else "Not Found"
Rating(aggregate_rating) ==
    IF Truthy(aggregate_rating)
    THEN RatingOf(GetAttr(aggregate_rating, "ratingValue", None))
    ELSE Ok(Str(NOT_FOUND_FIELD))

PriceOf(first) ==
    IF first.ok THEN GetAttr(first.v, "price", Str(NOT_FOUND_FIELD)) ELSE first

\* offers[0].get("price", "Not Found") if offers else "Not Found"
Pricing(offers) ==
    IF Truthy(offers) THEN PriceOf(First(offers)) ELSE Ok(Str(NOT_FOUND_FIELD))

ExtractFields(app_name, d, rating, pricing) ==
    IF ~rating.ok THEN Raise(rating.exc)
    ELSE IF ~pricing.ok THEN Raise(pricing.exc)
    ELSE Return(<<
             Str(app_name),
             Get(d, "name", Str(NOT_FOUND_FIELD)),
             Get(d, "description", Str(NOT_FOUND_FIELD)),
             Get(d, "applicationCategory", Str(NOT_FOUND_FIELD)),
             Get(d, "contentRating", Str(NOT_FOUND_FIELD)),
             rating.v,
             pricing.v
         >>)

\* The extraction from the parsed document.
Extract(app_name, data) ==
    IF data.t # "dict" THEN Raise("AttributeError")
    ELSE ExtractFields(app_name, data.v,
                       Rating(Get(data.v, "aggregateRating", Dict(<<>>))),
                       Pricing(Get(data.v, "offers", List(<<>>))))

\* The body of the try block of the detail fetch.
DetailTry(app_name, response) ==
    IF response.kind = "error" THEN Raise("RequestException")
    ELSE IF response.status = HTTP_OK
    THEN LET script_tag == FindScript(response.body)
         IN  IF script_tag # 0
             THEN LET loaded == JsonLoads(response.body[script_tag].string)
                  IN  IF loaded.ok THEN Extract(app_name, loaded.value)
                      ELSE Raise(loaded.exc)
             \* the return statement reads names the skipped branch never bound
             ELSE Raise("UnboundLocalError")
    ELSE Return(Times7(NOT_FOUND_ALL))

\* Mutant of FetchDetail: a failed fetch keeps the identifier in the record.
FetchDetailKeepsId(app_name, response) ==
    LET outcome == ExceptNotFound(DetailTry(app_name, response))
    IN  IF response.kind = "error" \/ response.status # HTTP_OK
        THEN Return([i \in 1..7 |-> IF i = 1 THEN Str(app_name) ELSE Str(NOT_FOUND_ALL)])
        ELSE outcome

\* try ... except ... of the detail fetch
FetchDetail(app_name, response) ==
    ExceptNotFound(DetailTry(app_name, response))

\* ----------------------------------------------------- load_and_process_excel
\* df.head(n): the first n rows, or all but the last -n rows when n < 0.
HeadRows(column, n) ==
    IF n >= 0
    THEN SubSeq(column, 1, IF n < Len(column) THEN n ELSE Len(column))
    ELSE SubSeq(column, 1, IF Len(column) + n > 0 THEN Len(column) + n ELSE 0)

Blank == Str(<<>>)

\* A row of df_unique: its index label, the name, the seven blank columns.
NewRow(label, name) ==
    [index |-> label, application_name |-> name,
     application_id |-> Blank, friendly_name |-> Blank, description |-> Blank,
     category |-> Blank, content_rating |-> Blank,
     application_rating |-> Blank, pricing |-> Blank]

\* df.drop_duplicates(subset=["Application Name"]): the rows whose name does
\* not stand in an earlier row, in order, with their index labels (0-based).
RECURSIVE KeepFirst(_, _)
KeepFirst(column, i) ==
    IF i > Len(column) THEN <<>>
    ELSE IF \E j \in 1..(i - 1) : column[j] = column[i]
         THEN KeepFirst(column, i + 1)
         ELSE <<NewRow(i - 1, column[i])>> \o KeepFirst(column, i + 1)

\* Mutant of DropDuplicates: the last occurrence of a name is kept.
RECURSIVE KeepLast(_, _)
KeepLast(column, i) ==
    IF i > Len(column) THEN <<>>
    ELSE IF \E j \in (i + 1)..Len(column) : column[j] = column[i]
         THEN KeepLast(column, i + 1)
         ELSE <<NewRow(i - 1, column[i])>> \o KeepLast(column, i + 1)
DropDuplicatesKeepLast(column) == KeepLast(column, 1)

DropDuplicates(column) == KeepFirst(column, 1)

\* The dtypes the blank columns can have: `df_unique[col] = ""` makes an
\* object column, and a str column from pandas 3 on.
ColumnDtypes == {"object", "str"}

\* The exception of df_unique.loc[index, col] = value on a column of that
\* dtype, "" when the value is stored. A list of other than one element
\* does not fit one cell and a dict is aligned as a Series, which a single
\* cell does not take; a str column takes text and None only.
LocError(dtype, value) ==
    IF value.t = "list" /\ Len(value.v) # 1 THEN "ValueError"
    ELSE IF value.t = "dict" THEN "ValueError"
    ELSE IF dtype = "str" /\ value.t \notin {"str", "None"} THEN "TypeError"
    ELSE ""

\* The first of the seven assignments that raises, 0 when none does.
FirstError(dtype, t) ==
    IF \A i \in 1..7 : LocError(dtype, t[i]) = "" THEN 0
    ELSE CHOOSE i \in 1..7 :
            LocError(dtype, t[i]) # "" /\ \A j \in 1..(i - 1) : LocError(dtype, t[j]) = ""

\* df_unique.loc[index, <column>] = <value>, for the first n of the seven
\* columns
SetRow(row, t, n) ==
    [row EXCEPT !.application_id = IF n >= 1 THEN t[1] ELSE @,
                !.friendly_name = IF n >= 2 THEN t[2] ELSE @,
                !.description = IF n >= 3 THEN t[3] ELSE @,
                !.category = IF n >= 4 THEN t[4] ELSE @,
                !.content_rating = IF n >= 5 THEN t[5] ELSE @,
                !.application_rating = IF n >= 6 THEN t[6] ELSE @,
                !.pricing = IF n >= 7 THEN t[7] ELSE @]

\* -------------------------------------------------------------------- state
VARIABLES
    column,      \* the spreadsheet's single column, as read by pd.read_excel
    num_rows,    \* the num_rows argument
    df_unique,   \* the working table
    dtype,       \* dtype of the seven added columns
    pos,         \* position of df_unique.iterrows()
    pc,          \* load, iter, search, detail, store, done, raised
    app_name,    \* scrape_google_play's app_name
    result,      \* the tuple scrape_google_play returns
    net,         \* requests issued for the current row, with their answers
    events,      \* history: requests and populated rows, by index label
    raised       \* the exception that left the loop body, "" if none

vars == <<column, num_rows, df_unique, dtype, pos, pc, app_name, result, net, events, raised>>

RECURSIVE SeqsUpTo(_, _)
SeqsUpTo(S, n) ==
    IF n = 0 THEN {<<>>}
    ELSE LET shorter == SeqsUpTo(S, n - 1)
         IN  shorter \cup {Append(s, x) : s \in shorter, x \in S}

Init ==
    /\ column \in (SeqsUpTo(Names, MaxRows) \ {<<>>})
    /\ num_rows \in NumRowsChoices
    /\ df_unique = <<>>
    /\ dtype = ""
    /\ pos = 1
    /\ pc = "load"
    /\ app_name = <<>>
    /\ result = <<>>
    /\ net = <<>>
    /\ events = <<>>
    /\ raised = ""

\* lines 134-149: read, cut to num_rows, drop duplicates, add blank columns
ReadExcel ==
    /\ pc = "load"
    /\ df_unique' = DropDuplicates(IF num_rows = <<>> THEN column
                                   ELSE HeadRows(column, num_rows[1]))
    /\ dtype' \in ColumnDtypes
    /\ pc' = "iter"
    /\ UNCHANGED <<column, num_rows, pos, app_name, result, net, events, raised>>

\* line 152 and the call of line 161 up to the first request (lines 41-46)
NextRow ==
    /\ pc = "iter"
    /\ pos <= Len(df_unique)
    /\ LET name == df_unique[pos].application_name
       IN  /\ app_name' = name
           /\ net' = <<>>
           /\ IF Skipped(name)
              THEN pc' = "store" /\ result' = Times7(NOT_APPLICABLE)
              ELSE /\ pc' = IF NeedsSearch(name) THEN "search" ELSE "detail"
                   /\ result' = <<>>
    /\ UNCHANGED <<column, num_rows, df_unique, dtype, pos, events, raised>>

\* One request and the code that handles its answer.
Step(kind, url, response, outcome, next) ==
    /\ net' = Append(net, [kind |-> kind, url |-> url, response |-> response])
    /\ events' = Append(events, [ev |-> kind, row |-> df_unique[pos].index])
    /\ IF outcome.k = "raise"
       THEN pc' = "raised" /\ raised' = outcome.exc
                           /\ UNCHANGED <<app_name, result>>
       ELSE /\ pc' = next
            /\ raised' = raised
            /\ app_name' = IF outcome.k = "fall" THEN outcome.app_name ELSE app_name
            /\ result' = IF outcome.k = "return" THEN outcome.val ELSE result
    /\ UNCHANGED <<column, num_rows, df_unique, dtype, pos>>

\* lines 46-74
SearchRequest ==
    /\ pc = "search"
    /\ \E i \in 1..Len(SearchResponses) :
          LET outcome == SearchFallback(app_name, SearchResponses[i])
          IN  Step("search", SearchUrl(app_name), SearchResponses[i],
                   outcome, AfterSearch(outcome))

\* lines 77-120
DetailRequest ==
    /\ pc = "detail"
    /\ \E i \in 1..Len(DetailResponses) :
          Step("detail", DetailUrl(app_name), DetailResponses[i],
               FetchDetail(app_name, DetailResponses[i]), "store")

\* lines 163-169
PopulateRow ==
    /\ pc = "store"
    /\ IF FirstError(dtype, result) = 0
       THEN /\ df_unique' = [df_unique EXCEPT ![pos] = SetRow(@, result, 7)]
            /\ events' = Append(events, [ev |-> "emit", row |-> df_unique[pos].index])
            /\ pos' = pos + 1
            /\ pc' = "iter"
            /\ raised' = raised
       \* nothing catches the exception: load_and_process_excel ends here
       ELSE /\ df_unique' = [df_unique EXCEPT
                                ![pos] = SetRow(@, result, FirstError(dtype, result) - 1)]
            /\ pc' = "raised"
            /\ raised' = LocError(dtype, result[FirstError(dtype, result)])
            /\ UNCHANGED <<events, pos>>
    /\ UNCHANGED <<column, num_rows, dtype, app_name, result, net>>

\* line 171
ReturnFrame ==
    /\ pc = "iter"
    /\ pos > Len(df_unique)
    /\ pc' = "done"
    /\ UNCHANGED <<column, num_rows, df_unique, dtype, pos, app_name, result, net, events, raised>>

Next ==
    \/ ReadExcel
    \/ NextRow
    \/ SearchRequest
    \/ DetailRequest
    \/ PopulateRow
    \/ ReturnFrame

Spec == Init /\ [][Next]_vars

\* ------------------------------------------------------------------- claims
\* The name of the row being processed (pc in search, detail, store).
Query == df_unique[pos].application_name
LastCall == net[Len(net)]
Failed(call) == call.response.kind = "error" \/ call.response.status # 200
AllNotFound == [i \in 1..7 |-> Str(NOT_FOUND_ALL)]
AllNotApplicable == [i \in 1..7 |-> Str(NOT_APPLICABLE)]
FieldDefault == Str(NOT_FOUND_FIELD)
Reserved(name) == StartsWith(name, RESERVED_PREFIX) /\ name # ALLOWED_ID
Dotted(name) == \E i \in 1..Len(name) : name[i] = "."

\* The list load_and_process_excel works on: the column cut to num_rows.
Input == IF num_rows = <<>> THEN column ELSE HeadRows(column, num_rows[1])
FirstAt(seq, x) == CHOOSE i \in 1..Len(seq) : seq[i] = x /\ \A j \in 1..(i - 1) : seq[j] # x
Populated(row) == row.application_id # Blank /\ row.pricing # Blank

\* C1: once the table is built it holds exactly one row per distinct input
\* name, in the order of the names' first occurrences in the input, and when
\* load_and_process_excel returns every one of these rows has been populated,
\* whatever outcome each name got.
C1_OneRecordPerDistinctNameInOrder ==
    pc # "load" =>
        /\ {df_unique[i].application_name : i \in 1..Len(df_unique)}
              = {Input[i] : i \in 1..Len(Input)}
        /\ \A i, j \in 1..Len(df_unique) :
              i < j => FirstAt(Input, df_unique[i].application_name)
                          < FirstAt(Input, df_unique[j].application_name)
        /\ pc = "done" => \A i \in 1..Len(df_unique) : Populated(df_unique[i])

\* C1 witness: a name repeated after another name; two rows, both populated.
C1_Witness ==
    /\ pc = "done"
    /\ num_rows = <<>>
    /\ Len(column) = 3 /\ column[1] = column[3] /\ column[1] # column[2]
    /\ Len(df_unique) = 2
    /\ Populated(df_unique[1]) /\ Populated(df_unique[2])

\* C2: a name that begins with "com.android" and is not "com.android.chrome"
\* never reaches a request and its record is "Not applicable" seven times;
\* "com.android.chrome" is not short-circuited: its record comes from exactly
\* one request, the detail fetch.
C2_ReservedPrefixNoNetwork ==
    /\ (pc \in {"search", "detail"} => ~Reserved(Query))
    /\ (pc = "store" /\ Reserved(Query)) =>
          net = <<>> /\ result = AllNotApplicable
    /\ (pc = "store" /\ Query = ALLOWED_ID) =>
          Len(net) = 1 /\ net[1].kind = "detail" /\ result # AllNotApplicable

\* C2 witness: a reserved name got its record and the allow-listed name, after
\* it, got its own from a detail fetch.
C2_Witness ==
    /\ pc = "store" /\ Query = ALLOWED_ID /\ Len(net) = 1
    /\ \E i \in 1..(pos - 1) :
          /\ Reserved(df_unique[i].application_name)
          /\ df_unique[i].application_id = Str(NOT_APPLICABLE)
          /\ df_unique[i].pricing = Str(NOT_APPLICABLE)

\* C3: for a name that contains '.' and is not excluded by the policy gate no
\* search request is issued: the only request is one detail fetch, for the
\* name unchanged.
C3_DottedNameNoSearch ==
    /\ (pc = "search" => ~Dotted(Query))
    /\ (pc = "store" /\ Dotted(Query) /\ ~Reserved(Query)) =>
          /\ Len(net) = 1
          /\ net[1].kind = "detail"
          /\ net[1].url = DETAIL_URL_HEAD \o Query \o DETAIL_URL_TAIL

\* C3 witness: a dotted name's record was produced by one detail fetch.
C3_Witness ==
    /\ pc = "store" /\ Query = NameOrgApp
    /\ Len(net) = 1 /\ net[1].kind = "detail"
    /\ result[1] = Str(NameOrgApp)

\* C4 (as claimed): after a search request that ended in a transport failure
\* or a non-200 status, the record is "Not found" seven times and no detail
\* fetch has been issued when the record is stored.
C4_SearchFailureStops ==
    (pc = "store" /\ Len(net) >= 1 /\ net[1].kind = "search" /\ Failed(net[1])) =>
        /\ Len(net) = 1
        /\ result = AllNotFound

\* The first section of a search page has an anchor whose href holds the marker.
HasQualifyingAnchor(sections) ==
    /\ Len(sections) > 0
    /\ \E i \in 1..Len(sections[1]) :
          /\ "href" \in DOMAIN sections[1][i]
          /\ Contains(sections[1][i]["href"], DETAILS_MARKER)

\* C5 (as claimed): after a search request answered 200 whose page has no
\* section, or whose section has no anchor with "/store/apps/details?id=" in
\* its href, the record is "Not found" seven times and no detail fetch is
\* issued.
C5_NoAnchorStops ==
    (/\ pc = "store" /\ Len(net) >= 1 /\ net[1].kind = "search"
     /\ ~Failed(net[1])
     /\ ~HasQualifyingAnchor(net[1].response.body)) =>
        /\ Len(net) = 1
        /\ result = AllNotFound

\* C6: when the detail fetch fails in transport or returns a non-200 status,
\* the record is "Not found" seven times, applicationId included.
C6_DetailFailureAllNotFound ==
    (pc = "store" /\ Len(net) >= 1 /\ LastCall.kind = "detail" /\ Failed(LastCall)) =>
        /\ result = AllNotFound
        /\ result[1] # Str(app_name)

\* C6 witness: a 404 on the detail fetch of a resolved identifier.
C6_Witness ==
    /\ pc = "store" /\ Len(net) = 2 /\ LastCall.kind = "detail"
    /\ LastCall.response.kind = "http" /\ LastCall.response.status = 404
    /\ app_name = NameOrgApp
    /\ result = AllNotFound

\* The first ld+json script of a page, 0 when there is none.
FirstLd(scripts) ==
    IF \E i \in 1..Len(scripts) : scripts[i]["type"] = LD_JSON
    THEN CHOOSE i \in 1..Len(scripts) :
            scripts[i]["type"] = LD_JSON /\ \A j \in 1..(i - 1) : scripts[j]["type"] # LD_JSON
    ELSE 0
WellFormed(text) == text.t = "str" /\ text.v.wellformed

\* C7 (as claimed): when the detail fetch returns 200 and the page has no
\* structured-data block, or its content is not well-formed JSON, the record
\* has applicationId equal to the fetched identifier and "Not Found" in the
\* other six fields.
C7_MissingBlockPartialRecord ==
    (/\ pc = "store" /\ Len(net) >= 1 /\ LastCall.kind = "detail" /\ ~Failed(LastCall)
     /\ LET scripts == LastCall.response.body
        IN  FirstLd(scripts) = 0 \/ ~WellFormed(scripts[FirstLd(scripts)].string)) =>
        result = <<Str(app_name), FieldDefault, FieldDefault, FieldDefault,
                   FieldDefault, FieldDefault, FieldDefault>>

Numeric(x) == Float(x).ok
\* The parsed document of the first ld+json script of the last call.
Block == LastCall.response.body[FirstLd(LastCall.response.body)].string.v.value
\* offers is absent, or a list of objects
PlainOffers(d) ==
    "offers" \in DOMAIN d =>
        /\ d["offers"].t = "list"
        /\ \A i \in 1..Len(d["offers"].v) : d["offers"].v[i].t = "dict"
\* aggregateRating is absent, or an object whose ratingValue is missing or
\* not numeric
BadRating(d) ==
    "aggregateRating" \in DOMAIN d =>
        /\ d["aggregateRating"].t = "dict"
        /\ \/ "ratingValue" \notin DOMAIN d["aggregateRating"].v
           \/ ~Numeric(d["aggregateRating"].v["ratingValue"])
\* C8 (as claimed): with a 200 page and a well-formed block, when
\* aggregateRating is absent, or present with ratingValue missing or not
\* numeric, applicationRating is "Not Found" and the other six fields are what
\* the block gives: the identifier, and each field's value or its default.
C8_BadRatingOnlyRatingDefaulted ==
    (/\ pc = "store" /\ Len(net) >= 1 /\ LastCall.kind = "detail" /\ ~Failed(LastCall)
     /\ FirstLd(LastCall.response.body) # 0
     /\ WellFormed(LastCall.response.body[FirstLd(LastCall.response.body)].string)
     /\ Block.t = "dict"
     /\ PlainOffers(Block.v)
     /\ BadRating(Block.v)) =>
        /\ result[1] = Str(app_name)
        /\ result[2] = Get(Block.v, "name", FieldDefault)
        /\ result[3] = Get(Block.v, "description", FieldDefault)
        /\ result[4] = Get(Block.v, "applicationCategory", FieldDefault)
        /\ result[5] = Get(Block.v, "contentRating", FieldDefault)
        /\ result[6] = FieldDefault
        /\ result[7] = (IF "offers" \in DOMAIN Block.v /\ Len(Block.v["offers"].v) > 0
                        THEN Get(Block.v["offers"].v[1].v, "price", FieldDefault)
                        ELSE FieldDefault)

\* C9 (as claimed): whatever the remote store answers, no exception leaves
\* scrape_google_play and what it returns is one tuple of seven fields; and
\* no failure on a row aborts the batch: no exception leaves the loop, and
\* when the run is over every row has been populated.
C9_NeverRaises ==
    /\ raised = ""
    /\ pc # "raised"
    /\ pc = "store" => Len(result) = 7
    /\ pc = "done" =>
          \A i \in 1..Len(df_unique) :
              \E e \in 1..Len(events) :
                  events[e] = [ev |-> "emit", row |-> df_unique[i].index]
\* C10: for one row at most one search request and at most one detail fetch
\* are issued, the search before the detail fetch, none repeated; and rows are
\* processed one after another: no request for a later row is issued before
\* the earlier row has been populated.
C10_AtMostTwoCallsSequential ==
    /\ Len(net) <= 2
    /\ \A i, j \in 1..Len(events) :
          i < j =>
              /\ events[i].row <= events[j].row
              /\ events[i].row = events[j].row =>
                    /\ events[i].ev # events[j].ev
                    /\ events[i].ev # "emit"
                    /\ events[i].ev = "detail" => events[j].ev = "emit"
              /\ events[i].row < events[j].row =>
                    \E k \in 1..(j - 1) :
                        events[k] = [ev |-> "emit", row |-> events[i].row]

\* C10 witness: a row that took both requests, then its record, then a request
\* of the next row.
C10_Witness ==
    /\ Len(events) >= 4
    /\ events[1].ev = "search" /\ events[2].ev = "detail" /\ events[3].ev = "emit"
    /\ events[1].row = events[3].row
    /\ events[4].row > events[1].row /\ events[4].ev # "emit"

====
